---- MODULE Spec2Model ----
(***************************************************************************)
(* Factory update server (factory_setup/factory_update_server.py).         *)
(*                                                                         *)
(* The model follows one FactoryUpdateServer object at a time: its polling *)
(* cycle RunOnce/_HandleTarball statement by statement, the Run loop       *)
(* thread, Start/Stop, the supervised rsync daemon process, the producer   *)
(* that rewrites the watched tarball, and a host crash followed by the     *)
(* construction of a new server object over the surviving directory.       *)
(***************************************************************************)
EXTENDS Integers, FiniteSets, Sequences, TLC

\* ------------------------------------------------------------------ bounds
\* RunOnce invocations followed per server object.
MaxRuns == 2
\* Host crashes followed.
MaxCrashes == 1

\* ---------------------------------------------------------------- archives
\* The archive contents the producer may drop as autotest.tar.bz2:
\*   A, B  complete archives holding an autotest/ directory
\*   X     corrupt or partially written bytes
\*   N     a complete archive without an autotest entry
\*   F     a complete archive whose autotest entry is a regular file
Archives == {"A", "B", "X", "N", "F"}

\* The st_mtime values the producer may give the tarball.  The code only
\* compares st_mtime for equality, so two values show every case.
Mtimes == {1, 2}

\* st_size of each archive: two lengths, shared by several archives.
Size(c) ==
    CASE c = "A" -> 1
      [] c = "X" -> 1
      [] c = "B" -> 2
      [] c = "N" -> 2
      [] c = "F" -> 2

\* md5sum <filename>: the first word of its output.
CalculateMd5sum(c) ==
    CASE c = "A" -> "md5_A"
      [] c = "B" -> "md5_B"
      [] c = "X" -> "md5_X"
      [] c = "N" -> "md5_N"
      [] c = "F" -> "md5_F"

Hashes == {CalculateMd5sum(c) : c \in Archives}

\* The bytes of the staged file autotest.tar.bz2.<md5sum>.
ArchiveOf(h) == CHOOSE c \in Archives : CalculateMd5sum(c) = h

\* tar -tjf <tarball>: TRUE when the listing pass exits 0.
TarLists(c) == c # "X"

\* tar -xjf <tarball> -C <dir>: exit status and the autotest entry it leaves.
TarExtract(c) ==
    CASE c \in {"A", "B"} -> [ok |-> TRUE, payload |-> "dir"]
      [] c = "N" -> [ok |-> TRUE, payload |-> "none"]
      [] c = "F" -> [ok |-> TRUE, payload |-> "file"]
      [] c = "X" -> [ok |-> FALSE, payload |-> "none"]

\* ------------------------------------------------------------------- files
NoFile == [exists |-> FALSE, content |-> "-", mtime |-> 0]

\* _last_stat = None
NoStat == <<0, 0>>

\* The (st_mtime, st_size) pair of os.stat.
StatOf(f) == <<f.mtime, Size(f.content)>>

\* A directory under autotest_dir: whether it exists, its autotest entry
\* ("none", "dir" or "file") and the contents of autotest/MD5SUM.
AbsentDir == [present |-> FALSE, payload |-> "none", marker |-> "none"]

EmptyDir == [present |-> TRUE, payload |-> "none", marker |-> "none"]

DirStates ==
    [present : BOOLEAN, payload : {"none", "dir", "file"},
     marker : Hashes \cup {"none"}]

\* A test that finds a MD5SUM file and does not read it.
MarkerValid_AnyMarker(d, h) == d.payload = "dir" /\ d.marker # "none"

\* os.path.exists(final_md5sum) and open(final_md5sum).read().strip() == md5sum
MarkerValid(d, h) == d.payload = "dir" /\ d.marker = h

\* A marker step that writes nothing.
WriteMarker_Skip(d, h) == d

\* with open(os.path.join(autotest_dir, MD5SUM), 'w') as f: f.write(md5sum)
WriteMarker(d, h) == [d EXCEPT !.marker = h]

VARIABLES
    \* --- the state directory on disk
    tarball,        \* autotest.tar.bz2
    store,          \* autotest/<h>/ for every hash h
    newdirs,        \* autotest/<h>.new/ for every hash h
    latest,         \* target of the symlink autotest/latest, or "none"
    latest_md5,     \* autotest/latest.md5sum: "absent", "" or a hash
    crashes,        \* how many times the host has gone down
    \* --- the FactoryUpdateServer object
    alive,          \* the process holding the object is running
    last_stat,      \* self._last_stat
    run_count,      \* self._run_count
    update_count,   \* self._update_count
    errors,         \* self._errors
    stop_event,     \* self._stop_event.is_set()
    thread,         \* self._thread is not None
    rsyncd,         \* self._rsyncd is not None
    \* --- the cycle in progress
    pc,             \* position inside RunOnce/_HandleTarball, or "idle"
    runner,         \* who executes the cycle: "caller", "loop" or "none"
    md5sum,         \* local md5sum of _HandleTarball
    success,        \* local success: "unset", "false" or "true"
    pending,        \* what leaves the try block: "none", "return", "raise"
    outcome,        \* how the last RunOnce ended: "returned", "raised"
    log,            \* the last message the cycle logged
    snap,           \* disk and counters as they were when the cycle began
    untouched,      \* the producer has left the tarball alone since the
                    \* last RunOnce of this object returned
    \* --- threads and the daemon process
    lp,             \* the Run thread: "none", "call", "incycle", "wait", "exited"
    sp,             \* the caller inside Stop(), or "idle"
    proc,           \* rsync: "none", "binding", "running", "terming",
                    \* "exited", "reaped"
    killer,         \* the WaitAndKill thread: "none", "sleeping", "done"
    \* --- shopfloor_server
    mp,             \* main() of shopfloor_server: "none" when the object
                    \* is used as a library, else "init", "hwid",
                    \* "startbase", "serve", "finally", "stopbase", "exited"
    \* --- history
    hist            \* handled: the content the last RunOnce that read the
                    \* tarball rejected in verification or staged, or
                    \* "none"; rewound: some producer write has left the
                    \* tarball with an mtime that is not later than before

diskVars == <<tarball, store, newdirs, latest, latest_md5, crashes>>

storeVars == <<store, newdirs, latest, latest_md5, crashes>>

objVars == <<alive, last_stat, run_count, update_count, errors, stop_event, thread, rsyncd>>

cycleVars == <<pc, runner, md5sum, success, pending, outcome, log, snap>>

threadVars == <<lp, sp, proc, killer, mp, hist>>

vars == <<diskVars, objVars, cycleVars, untouched, threadVars>>

NoDirs == [h \in Hashes |-> AbsentDir]

\* History of the cycle in progress, recorded on entry of RunOnce: the
\* store, the pointer and the counters as they were, whether the previous
\* RunOnce of this object ended in the "corrupt or incomplete" warning.
Snapshot ==
    [store |-> store, newdirs |-> newdirs, latest |-> latest,
     latest_md5 |-> latest_md5, update_count |-> update_count,
     errors |-> errors, after_corrupt |-> (log = "corrupt")]

\* No cycle in progress.
NoSnap ==
    [store |-> NoDirs, newdirs |-> NoDirs, latest |-> "none",
     latest_md5 |-> "absent", update_count |-> 0, errors |-> 0,
     after_corrupt |-> FALSE]

\* No RunOnce of this object has read the tarball, no write has rewound
\* its mtime.
NoHist == [handled |-> "none", rewound |-> FALSE]

\* -------------------------------------------------------------------- Init
\* FactoryUpdateServer.__init__ over a fresh state directory: autotest/ is
\* created empty, the rsync daemon is spawned, no thread, counters zero.
InitObject ==
    /\ alive = TRUE
    /\ last_stat = NoStat
    /\ run_count = 0
    /\ update_count = 0
    /\ errors = 0
    /\ stop_event = FALSE
    /\ thread = FALSE
    /\ rsyncd = TRUE
    /\ pc = "idle"
    /\ runner = "none"
    /\ md5sum = "none"
    /\ success = "unset"
    /\ pending = "none"
    /\ outcome = "none"
    /\ untouched = FALSE
    /\ log = "none"
    /\ lp = "none"
    /\ sp = "idle"
    /\ proc = "running"
    /\ killer = "none"

Init ==
    /\ tarball = NoFile
    /\ store = NoDirs
    /\ newdirs = NoDirs
    /\ latest = "none"
    /\ latest_md5 = "absent"
    /\ crashes = 0
    /\ InitObject
    /\ snap = NoSnap
    /\ mp = "none"
    /\ hist = NoHist

\* Directories an earlier run, another process or an operator may have left
\* under autotest/ as <h>/: a deployed one, one without MD5SUM, one whose
\* MD5SUM names another archive.
LeftoverDirs(h) ==
    {[present |-> TRUE, payload |-> "dir", marker |-> h],
     [present |-> TRUE, payload |-> "dir", marker |-> "none"],
     [present |-> TRUE, payload |-> "dir",
      marker |-> CHOOSE g \in Hashes : g # h]}

\* __init__ over a state directory whose autotest/ already holds one
\* directory.
InitStore ==
    /\ tarball = NoFile
    /\ \E h \in Hashes : \E d \in LeftoverDirs(h) :
           store = [NoDirs EXCEPT ![h] = d]
    /\ newdirs = NoDirs
    /\ latest = "none"
    /\ latest_md5 = "absent"
    /\ crashes = 0
    /\ InitObject
    /\ snap = NoSnap
    /\ mp = "none"
    /\ hist = NoHist

\* __init__ has returned and Start() has not been called yet: Popen has
\* spawned rsync, which has not bound its port yet.
InitStartup ==
    /\ tarball = NoFile
    /\ store = NoDirs
    /\ newdirs = NoDirs
    /\ latest = "none"
    /\ latest_md5 = "absent"
    /\ crashes = 0
    /\ alive = TRUE
    /\ last_stat = NoStat
    /\ run_count = 0
    /\ update_count = 0
    /\ errors = 0
    /\ stop_event = FALSE
    /\ thread = FALSE
    /\ rsyncd = TRUE
    /\ pc = "idle"
    /\ runner = "none"
    /\ md5sum = "none"
    /\ success = "unset"
    /\ pending = "none"
    /\ outcome = "none"
    /\ untouched = FALSE
    /\ log = "none"
    /\ snap = NoSnap
    /\ lp = "none"
    /\ sp = "idle"
    /\ proc = "binding"
    /\ killer = "none"
    /\ mp = "none"
    /\ hist = NoHist

\* ---------------------------------------------------------------- producer
\* The external producer (re)writes autotest.tar.bz2.
ProducerWrite ==
    \E c \in Archives, m \in Mtimes :
        /\ tarball' = [exists |-> TRUE, content |-> c, mtime |-> m]
        /\ tarball' # tarball
        /\ untouched' = FALSE
        /\ UNCHANGED <<storeVars, objVars, cycleVars, threadVars>>

\* The producer removes autotest.tar.bz2 (for instance before replacing it).
ProducerRemove ==
    /\ tarball.exists
    /\ tarball' = NoFile
    /\ untouched' = FALSE
    /\ UNCHANGED <<storeVars, objVars, cycleVars, threadVars>>

\* ------------------------------------------------------------------ RunOnce
\* RunOnce: except: self._errors += 1; raise
CountError(out, e) == IF out = "raised" THEN e + 1 ELSE e

\* A loop without the try/except: the exception ends the thread.
AfterRunOnce_Escapes(out) == IF out = "raised" THEN "exited" ELSE "wait"

\* Run: try: self.RunOnce() / except: logging.exception(...); whether RunOnce
\* returned or raised, the loop goes on to self._stop_event.wait(...).
AfterRunOnce(out) == "wait"

\* The cycle ends: a return, or an exception that RunOnce counts and
\* re-raises.  In the Run thread the exception is caught and the loop goes
\* on to its wait; in the caller it reaches the caller.  The locals die.
Finish(out) ==
    /\ pc' = "idle"
    /\ runner' = "none"
    /\ outcome' = out
    /\ untouched' = TRUE
    /\ errors' = CountError(out, errors)
    /\ lp' = IF runner = "loop" THEN AfterRunOnce(out) ELSE lp
    /\ md5sum' = "none"
    /\ success' = "unset"
    /\ pending' = "none"
    /\ snap' = NoSnap

\* A change test that compares the sizes only.
NoChange_SizeOnly(last, stat) == last # NoStat /\ stat[2] = last[2]

\* A change test under which the tarball always counts as changed.
NoChange_Never(last, stat) == FALSE

\* if (self._last_stat and (stat.st_mtime, stat.st_size) ==
\*     (self._last_stat.st_mtime, self._last_stat.st_size)): return
NoChange(last, stat) == last # NoStat /\ stat = last

\* RunOnce up to the verification: self._run_count += 1, os.stat of the
\* tarball (ENOENT: return), the comparison with _last_stat (no change:
\* return), self._last_stat = stat.
RunOnce_Enter(who) ==
    /\ alive /\ pc = "idle"
    /\ run_count < MaxRuns
    /\ run_count' = run_count + 1
    /\ log' = "none"
    /\ IF ~tarball.exists \/ NoChange(last_stat, StatOf(tarball))
       THEN /\ outcome' = "returned"
            /\ untouched' = TRUE
            /\ lp' = IF who = "loop" THEN AfterRunOnce("returned") ELSE lp
            /\ UNCHANGED <<last_stat, pc, runner, snap>>
       ELSE /\ last_stat' = StatOf(tarball)
            /\ pc' = "verify"
            /\ runner' = who
            /\ outcome' = "running"
            /\ untouched' = FALSE
            /\ lp' = IF who = "loop" THEN "incycle" ELSE lp
            /\ snap' = Snapshot
    /\ UNCHANGED <<diskVars, alive, update_count, errors, stop_event, thread,
                   rsyncd, md5sum, success, pending, sp, proc, killer, mp, hist>>

\* The caller invokes RunOnce() itself (the test hook), no Run thread alive.
Caller_RunOnce ==
    /\ sp = "idle" /\ lp = "none"
    /\ RunOnce_Enter("caller")

\* A verification failure that is re-raised.
OnCorrupt_Raise == "raised"

\* except subprocess.CalledProcessError: logging.warn(...); return
OnCorrupt == "returned"

\* subprocess.check_call(['tar', '-tjf', self._tarball_path]).
RunOnce_Verify ==
    /\ alive /\ pc = "verify"
    /\ IF tarball.exists /\ TarLists(tarball.content)
       THEN /\ pc' = "restat"
            /\ UNCHANGED <<runner, outcome, untouched, errors, lp, snap, md5sum, success,
                           pending, log>>
       ELSE /\ log' = "corrupt"
            /\ Finish(OnCorrupt)
    /\ hist' = IF tarball.exists /\ ~TarLists(tarball.content)
               THEN [hist EXCEPT !.handled = tarball.content]
               ELSE hist
    /\ UNCHANGED <<diskVars, alive, last_stat, run_count, update_count,
                   stop_event, thread, rsyncd,
                   sp, proc, killer, mp>>

\* self._last_stat = os.stat(self._tarball_path)
RunOnce_Restat ==
    /\ alive /\ pc = "restat"
    /\ IF tarball.exists
       THEN /\ last_stat' = StatOf(tarball)
            /\ pc' = "copy"
            /\ UNCHANGED <<runner, outcome, untouched, errors, lp, snap, md5sum, success,
                           pending>>
       ELSE /\ Finish("raised")
            /\ UNCHANGED last_stat
    /\ UNCHANGED <<diskVars, alive, run_count, update_count, stop_event, thread,
                   rsyncd, log, sp, proc, killer, mp, hist>>

\* ----------------------------------------------------------- _HandleTarball
\* shutil.copyfile(self._tarball_path, new_tarball_path);
\* md5sum = CalculateMd5sum(new_tarball_path);
\* os.rename(new_tarball_path, final_tarball_path)
\* The private copy autotest.tar.bz2.new exists only inside this step; the
\* staged file autotest.tar.bz2.<md5sum> it becomes is read back by the
\* extraction of the same cycle alone (ArchiveOf).
HandleTarball_Copy ==
    /\ alive /\ pc = "copy"
    /\ IF tarball.exists
       THEN /\ md5sum' = CalculateMd5sum(tarball.content)
            /\ pc' = "check"
            /\ UNCHANGED <<runner, outcome, untouched, errors, lp, snap, success, pending>>
       ELSE Finish("raised")
    /\ hist' = IF tarball.exists
               THEN [hist EXCEPT !.handled = tarball.content]
               ELSE hist
    /\ UNCHANGED <<tarball, crashes, store, newdirs, latest, latest_md5, alive,
                   last_stat, run_count, update_count, stop_event, thread,
                   rsyncd, log, sp, proc, killer, mp>>

\* An existing directory never taken as deployed.
ExistingSubfolder_Warn(d, h) == "warn"

\* An existing directory taken as deployed without reading its MD5SUM.
ExistingSubfolder_Trusting(d, h) == "deployed"

\* What _HandleTarball does with an existing final_subfolder: "warn" and
\* return, or go on to the symlink as "deployed".
ExistingSubfolder(d, h) == IF MarkerValid(d, h) THEN "deployed" ELSE "warn"

\* if os.path.exists(final_subfolder): ... else: ...
HandleTarball_Check ==
    /\ alive /\ pc = "check"
    /\ IF store[md5sum].present
       THEN IF ExistingSubfolder(store[md5sum], md5sum) = "warn"
            THEN /\ log' = "badmarker"
                 /\ Finish("returned")
            ELSE /\ log' = "deployed"
                 /\ pc' = "unlink"
                 /\ UNCHANGED <<runner, outcome, untouched, errors, lp, snap, md5sum, success,
                           pending>>
       ELSE /\ pc' = "mkdir"
            /\ UNCHANGED <<runner, outcome, untouched, errors, lp, snap, md5sum, success,
                           pending, log>>
    /\ UNCHANGED <<diskVars, alive, last_stat, run_count, update_count,
                   stop_event, thread, rsyncd,
                   sp, proc, killer, mp, hist>>

\* if os.path.exists(new_subfolder): shutil.rmtree(new_subfolder)
\* os.mkdir(new_subfolder); success = False
HandleTarball_Mkdir ==
    /\ alive /\ pc = "mkdir"
    /\ newdirs' = [newdirs EXCEPT ![md5sum] = EmptyDir]
    /\ success' = "false"
    /\ pc' = "extract"
    /\ UNCHANGED <<tarball, crashes, store, latest, latest_md5,
                   objVars, runner, md5sum, pending, outcome, untouched, log, snap,
                   threadVars>>

\* subprocess.check_call(('tar', '-xjf', final_tarball_path, '-C', new_subfolder))
\* tar fails on a bad archive and on a new_subfolder that is not there.
HandleTarball_Extract ==
    /\ alive /\ pc = "extract"
    /\ LET r == TarExtract(ArchiveOf(md5sum)) IN
       IF r.ok /\ newdirs[md5sum].present
       THEN /\ newdirs' = [newdirs EXCEPT ![md5sum].payload = r.payload]
            /\ pc' = "marker"
            /\ UNCHANGED <<pending, log>>
       ELSE /\ log' = "extractfail"
            /\ pending' = "return"
            /\ pc' = "finally"
            /\ UNCHANGED newdirs
    /\ UNCHANGED <<tarball, crashes, store, latest, latest_md5,
                   objVars, runner, md5sum, success, outcome, untouched, snap, threadVars>>

\* tar -xjf exits with an error on a good archive (a full disk, an I/O
\* error): except subprocess.CalledProcessError: logging.error(...); return
HandleTarball_ExtractFault ==
    /\ alive /\ pc = "extract"
    /\ log' = "extractfail"
    /\ pending' = "return"
    /\ pc' = "finally"
    /\ UNCHANGED <<diskVars, objVars, runner, md5sum, success, outcome,
                   untouched, snap, threadVars>>

\* if not os.path.exists(autotest_dir): ... return
\* with open(os.path.join(autotest_dir, MD5SUM), 'w') as f: f.write(md5sum)
HandleTarball_Marker ==
    /\ alive /\ pc = "marker"
    /\ LET d == newdirs[md5sum] IN
       CASE d.payload = "none" ->
              /\ log' = "noautotest"
              /\ pending' = "return"
              /\ pc' = "finally"
              /\ UNCHANGED newdirs
         [] d.payload = "file" ->
              /\ pending' = "raise"
              /\ pc' = "finally"
              /\ UNCHANGED <<newdirs, log>>
         [] d.payload = "dir" ->
              /\ newdirs' = [newdirs EXCEPT ![md5sum] = WriteMarker(d, md5sum)]
              /\ pc' = "rename"
              /\ UNCHANGED <<pending, log>>
    /\ UNCHANGED <<tarball, crashes, store, latest, latest_md5,
                   objVars, runner, md5sum, success, outcome, untouched, snap, threadVars>>

\* A rename into a store that keeps the newest version only.
Promote_Only(st, h, d) == [x \in Hashes |-> IF x = h THEN d ELSE AbsentDir]

\* os.rename(new_subfolder, final_subfolder): the entry <h>/ of autotest/
\* becomes the staged tree, every other entry stays.
Promote(st, h, d) == [st EXCEPT ![h] = d]

\* An update that is not counted.
CountUpdate_Skip(u) == u

\* self._update_count += 1
CountUpdate(u) == u + 1

\* os.rename(new_subfolder, final_subfolder); success = True;
\* self._update_count += 1
HandleTarball_Rename ==
    /\ alive /\ pc = "rename"
    /\ IF store[md5sum].present
       THEN /\ pending' = "raise"
            /\ UNCHANGED <<store, newdirs, success, update_count, log>>
       ELSE /\ store' = Promote(store, md5sum, newdirs[md5sum])
            /\ newdirs' = [newdirs EXCEPT ![md5sum] = AbsentDir]
            /\ success' = "true"
            /\ update_count' = CountUpdate(update_count)
            /\ log' = "moved"
            /\ UNCHANGED pending
    /\ pc' = "finally"
    /\ UNCHANGED <<tarball, crashes, latest, latest_md5, alive,
                   last_stat, run_count, errors, stop_event, thread, rsyncd,
                   runner, md5sum, outcome, untouched, snap, threadVars>>

\* A failed attempt that falls through to the pointer update.
AfterFinally_FallThrough(p) == IF p = "raise" THEN "raised" ELSE "unlink"

\* Where control goes once the finally clause has run.
AfterFinally(p) ==
    CASE p = "none" -> "unlink"
      [] p = "return" -> "returned"
      [] p = "raise" -> "raised"

\* A cleanup that removes nothing.
RmTree_Keep(ds, h) == ds

\* shutil.rmtree(<directory of h>, ignore_errors=True)
RmTree(ds, h) == [ds EXCEPT ![h] = AbsentDir]

\* finally: if os.path.exists(new_subfolder): shutil.rmtree(new_subfolder, ...)
\*          if (not success) and os.path.exists(final_subfolder): shutil.rmtree(...)
HandleTarball_Finally ==
    /\ alive /\ pc = "finally"
    /\ newdirs' = IF newdirs[md5sum].present
                  THEN RmTree(newdirs, md5sum)
                  ELSE newdirs
    /\ store' = IF success # "true" /\ store[md5sum].present
                THEN RmTree(store, md5sum)
                ELSE store
    /\ IF AfterFinally(pending) = "unlink"
       THEN /\ pc' = "unlink"
            /\ UNCHANGED <<runner, outcome, untouched, errors, lp, snap, md5sum, success,
                           pending>>
       ELSE Finish(AfterFinally(pending))
    /\ UNCHANGED <<tarball, crashes, latest, latest_md5, alive,
                   last_stat, run_count, update_count, stop_event, thread,
                   rsyncd, log, sp, proc, killer, mp, hist>>

\* if os.path.islink(linkname): os.remove(linkname)
HandleTarball_Unlink ==
    /\ alive /\ pc = "unlink"
    /\ latest' = "none"
    /\ pc' = "symlink"
    /\ UNCHANGED <<tarball, crashes, store, newdirs, latest_md5,
                   objVars, runner, md5sum, success, pending, outcome, untouched, log, snap,
                   threadVars>>

\* os.symlink(md5sum, linkname)
HandleTarball_Symlink ==
    /\ alive /\ pc = "symlink"
    /\ latest' = md5sum
    /\ pc' = "md5open"
    /\ UNCHANGED <<tarball, crashes, store, newdirs, latest_md5,
                   objVars, runner, md5sum, success, pending, outcome, untouched, log, snap,
                   threadVars>>

\* open(os.path.join(self.autotest_dir, LATEST_MD5SUM), 'w'): the file is
\* created or truncated.
HandleTarball_OpenLatest ==
    /\ alive /\ pc = "md5open"
    /\ latest_md5' = ""
    /\ pc' = "md5write"
    /\ UNCHANGED <<tarball, crashes, store, newdirs, latest,
                   objVars, runner, md5sum, success, pending, outcome, untouched, log, snap,
                   threadVars>>

\* A write that leaves the file empty.
WrittenLine_Empty(h) == ""

\* f.write(md5sum): the file holds the hash, with no newline.
WrittenLine(h) == h

\* f.write(md5sum) and the return of _HandleTarball and RunOnce.
HandleTarball_WriteLatest ==
    /\ alive /\ pc = "md5write"
    /\ latest_md5' = WrittenLine(md5sum)
    /\ log' = "complete"
    /\ Finish("returned")
    /\ UNCHANGED <<tarball, crashes, store, newdirs, latest, alive,
                   last_stat, run_count, update_count, stop_event, thread,
                   rsyncd, sp, proc, killer, mp, hist>>

Cycle ==
    \/ RunOnce_Verify
    \/ RunOnce_Restat
    \/ HandleTarball_Copy
    \/ HandleTarball_Check
    \/ HandleTarball_Mkdir
    \/ HandleTarball_Extract
    \/ HandleTarball_Marker
    \/ HandleTarball_Rename
    \/ HandleTarball_Finally
    \/ HandleTarball_Unlink
    \/ HandleTarball_Symlink
    \/ HandleTarball_OpenLatest
    \/ HandleTarball_WriteLatest

\* ------------------------------------------------------------ Start and Run
\* A loop that waits and tests the stop flag before its first RunOnce.
LoopEntry_WaitFirst == "wait"

\* Run: while True: try: self.RunOnce() -- the thread begins with a call of
\* RunOnce, before any wait or test of the stop flag.
LoopEntry == "call"

\* Start(): assert not self._thread; the Run thread is created and started.
Start_Call ==
    /\ alive /\ sp = "idle" /\ runner # "caller"
    /\ ~thread
    /\ thread' = TRUE
    /\ lp' = LoopEntry
    /\ UNCHANGED <<diskVars, alive, last_stat, run_count, update_count, errors,
                   stop_event, rsyncd, cycleVars, untouched, sp, proc, killer>>

\* Start() called by the owner of the object.
Start ==
    /\ Start_Call
    /\ UNCHANGED <<mp, hist>>

\* Run: the loop calls self.RunOnce().
Run_Call ==
    /\ lp = "call"
    /\ RunOnce_Enter("loop")

\* A loop that goes on to the next RunOnce whatever the stop flag.
AfterWait_NoBreak(is_set) == "call"

\* What the loop does after self._stop_event.wait(self.poll_interval_sec).
AfterWait(is_set) == IF is_set THEN "exited" ELSE "call"

\* Run: self._stop_event.wait(...); if self._stop_event.is_set(): break
Run_Wait ==
    /\ alive /\ lp = "wait"
    /\ lp' = AfterWait(stop_event)
    /\ UNCHANGED <<diskVars, objVars, cycleVars, untouched, sp, proc, killer, mp, hist>>

\* --------------------------------------------------------------------- Stop
\* Stop(): if self._rsyncd: ...
Stop_Call ==
    /\ alive /\ sp = "idle" /\ runner # "caller"
    /\ sp' = IF rsyncd THEN "terminate" ELSE "set"
    /\ UNCHANGED <<diskVars, objVars, cycleVars, untouched, lp, proc, killer>>

\* Stop() called by the owner of the object.
Stop_Begin ==
    /\ Stop_Call
    /\ UNCHANGED <<mp, hist>>

\* StopRsyncServer: rsyncd_process.terminate() and the start of the
\* WaitAndKill thread.
Stop_Terminate ==
    /\ alive /\ sp = "terminate"
    /\ proc' = IF proc \in {"binding", "running"} THEN "terming" ELSE proc
    /\ killer' = "sleeping"
    /\ sp' = "wait"
    /\ UNCHANGED <<diskVars, objVars, cycleVars, untouched, lp, mp, hist>>

\* A Stop that keeps the handle of the stopped daemon.
HandleAfterStop_Kept == TRUE

\* The handle Stop keeps once StopRsyncServer has returned.
HandleAfterStop == FALSE

\* StopRsyncServer: rsyncd_process.wait() returns; self._rsyncd = None
Stop_Wait ==
    /\ alive /\ sp = "wait"
    /\ proc = "exited"
    /\ proc' = "reaped"
    /\ rsyncd' = HandleAfterStop
    /\ sp' = "set"
    /\ UNCHANGED <<diskVars, alive, last_stat, run_count, update_count, errors,
                   stop_event, thread, cycleVars, untouched, lp, killer, mp, hist>>

\* self._stop_event.set(); if self._thread: ...
Stop_Set ==
    /\ alive /\ sp = "set"
    /\ stop_event' = TRUE
    /\ sp' = IF thread THEN "join" ELSE "idle"
    /\ UNCHANGED <<diskVars, alive, last_stat, run_count, update_count, errors,
                   thread, rsyncd, cycleVars, untouched, lp, proc, killer, mp, hist>>

\* A Stop that does not wait for the Run thread.
Joinable_Always(l) == TRUE

\* The state of the Run thread in which self._thread.join() returns.
Joinable(l) == l = "exited"

\* self._thread.join(); self._thread = None
Stop_Join ==
    /\ alive /\ sp = "join"
    /\ Joinable(lp)
    /\ thread' = FALSE
    /\ lp' = "none"
    /\ sp' = "idle"
    /\ UNCHANGED <<diskVars, alive, last_stat, run_count, update_count, errors,
                   stop_event, rsyncd, cycleVars, untouched, proc, killer, mp, hist>>

\* --------------------------------------------------------- the rsync daemon
\* rsync exits on the termination signal.
Daemon_Exit ==
    /\ proc = "terming"
    /\ proc' = "exited"
    /\ UNCHANGED <<diskVars, objVars, cycleVars, untouched, lp, sp, killer, mp, hist>>

\* rsync --daemon binds the port of its configuration file and serves.
Daemon_Bind ==
    /\ proc = "binding"
    /\ proc' = "running"
    /\ UNCHANGED <<diskVars, objVars, cycleVars, untouched, lp, sp, killer, mp, hist>>

\* rsync --daemon cannot bind the port (it is in use) and exits; the Popen
\* object of StartRsyncServer stays as it is.
Daemon_BindFail ==
    /\ proc = "binding"
    /\ proc' = "exited"
    /\ UNCHANGED <<diskVars, objVars, cycleVars, untouched, lp, sp, killer, mp, hist>>

\* A kill signal that the process survives.
AfterKill_Ignored(p) == p

\* rsyncd_process.kill(): SIGKILL ends a process that has not exited yet.
AfterKill(p) ==
    IF p \in {"binding", "running", "terming"} THEN "exited" ELSE p

\* WaitAndKill: time.sleep(1); rsyncd_process.kill()
Killer_Kill ==
    /\ killer = "sleeping"
    /\ proc' = AfterKill(proc)
    /\ killer' = IF proc = "reaped" THEN "stale" ELSE "done"
    /\ UNCHANGED <<diskVars, objVars, cycleVars, untouched, lp, sp, mp, hist>>

\* ------------------------------------------------- crash and new instances
\* The fields and threads of a newly constructed FactoryUpdateServer.
NewObject ==
    /\ alive' = TRUE
    /\ last_stat' = NoStat
    /\ run_count' = 0
    /\ update_count' = 0
    /\ errors' = 0
    /\ stop_event' = FALSE
    /\ thread' = FALSE
    /\ rsyncd' = TRUE
    /\ pc' = "idle"
    /\ runner' = "none"
    /\ md5sum' = "none"
    /\ success' = "unset"
    /\ pending' = "none"
    /\ outcome' = "none"
    /\ untouched' = FALSE
    /\ log' = "none"
    /\ snap' = NoSnap
    /\ lp' = "none"
    /\ sp' = "idle"
    /\ proc' = "running"
    /\ killer' = "none"
    /\ mp' = "none"
    /\ hist' = [hist EXCEPT !.handled = "none"]

\* The server has been stopped: daemon handle cleared, no thread, no cycle.
Stopped == alive /\ sp = "idle" /\ pc = "idle" /\ ~thread /\ ~rsyncd

\* FactoryUpdateServer(state_dir) over the existing state directory, after
\* a crash or in place of a stopped instance.
NewServer ==
    /\ ~alive \/ Stopped
    /\ NewObject
    /\ UNCHANGED diskVars

\* The host goes down: every process and thread is gone, the disk stays.
Crash ==
    /\ alive
    /\ crashes < MaxCrashes
    /\ crashes' = crashes + 1
    /\ alive' = FALSE
    /\ last_stat' = NoStat
    /\ run_count' = 0
    /\ update_count' = 0
    /\ errors' = 0
    /\ stop_event' = FALSE
    /\ thread' = FALSE
    /\ rsyncd' = FALSE
    /\ pc' = "idle"
    /\ runner' = "none"
    /\ md5sum' = "none"
    /\ success' = "unset"
    /\ pending' = "none"
    /\ outcome' = "none"
    /\ untouched' = FALSE
    /\ log' = "none"
    /\ snap' = NoSnap
    /\ lp' = "none"
    /\ sp' = "idle"
    /\ proc' = "none"
    /\ killer' = "none"
    /\ mp' = "none"
    /\ hist' = [hist EXCEPT !.handled = "none"]
    /\ UNCHANGED <<tarball, store, newdirs, latest, latest_md5>>

\* An operator deletes autotest/latest.md5sum while no server is running.
RemoveLatestMd5 ==
    /\ ~alive \/ Stopped
    /\ latest_md5 # "absent"
    /\ latest_md5' = "absent"
    /\ UNCHANGED <<tarball, crashes, store, newdirs, latest,
                   objVars, cycleVars, untouched, threadVars>>

\* ------------------------------------------------------ a second instance
\* Another FactoryUpdateServer over the same state directory runs
\* _HandleTarball for the same valid tarball from its test of <h>/ to the
\* end without interruption: <h>/ is not there, it removes and recreates
\* <h>.new, extracts, writes MD5SUM, renames <h>.new to <h>/ and sets
\* latest and latest.md5sum.
Other_Publish ==
    /\ tarball.exists
    /\ TarLists(tarball.content)
    /\ TarExtract(tarball.content).ok
    /\ TarExtract(tarball.content).payload = "dir"
    /\ LET h == CalculateMd5sum(tarball.content) IN
         /\ ~store[h].present
         /\ store' = Promote(store, h, WriteMarker(
                [present |-> TRUE, payload |-> "dir", marker |-> "none"], h))
         /\ newdirs' = [newdirs EXCEPT ![h] = AbsentDir]
         /\ latest' = h
         /\ latest_md5' = WrittenLine(h)
    /\ UNCHANGED <<tarball, crashes, objVars, cycleVars, untouched,
                   threadVars>>

\* ------------------------------------------------------- the shopfloor side
\* The names factory_update_server.py defines at module level.
ModuleNames ==
    {"AUTOTEST_DIR", "TARBALL_NAME", "LATEST_SYMLINK", "LATEST_MD5SUM",
     "MD5SUM", "DEFAULT_RSYNCD_PORT", "RSYNCD_CONFIG_TEMPLATE",
     "StartRsyncServer", "StopRsyncServer", "CalculateMd5sum",
     "FactoryUpdateServer"}

\* GetTestMd5sum, once it has the path of latest.md5sum: None if
\* os.path.isfile fails, else f.readline().strip() of what the file holds
\* at that instant.
ReadLatestMd5sum == IF latest_md5 = "absent" THEN "None" ELSE latest_md5

\* ShopFloorBase.GetTestMd5sum(): None without an update directory; else
\* the path is built from factory_update_server.FACTORY_DIR and
\* factory_update_server.LATEST_MD5SUM, an AttributeError when the module
\* does not define the name; else None if the file is missing, else its
\* first line.
GetTestMd5sum(has_update_dir) ==
    IF ~has_update_dir THEN "None"
    ELSE IF {"FACTORY_DIR", "LATEST_MD5SUM"} \subseteq ModuleNames
         THEN ReadLatestMd5sum
         ELSE "AttributeError"

\* --------------------------------------------------------- specifications
\* The producer and the construction of server objects.
Environment ==
    \/ ProducerWrite
    \/ ProducerRemove

\* Stop() of a server whose Run thread was never started, and the daemon.
StopSteps ==
    \/ Stop_Begin
    \/ Stop_Terminate
    \/ Stop_Wait
    \/ Stop_Set
    \/ Daemon_Exit
    \/ Killer_Kill

\* The producer acts between two RunOnce() calls, as in the unit test.
BetweenCycles ==
    /\ pc = "idle"
    /\ Environment

\* The publication pipeline of one server object, driven through RunOnce()
\* by the caller as the unit test drives it: the tarball is rewritten
\* between the calls, not during one.
NextPublish ==
    \/ BetweenCycles
    \/ Caller_RunOnce
    \/ Cycle

SpecPublish == Init /\ [][NextPublish]_vars

\* One server object over a state directory that is not empty, the producer
\* rewriting the tarball at any moment of a cycle.
NextStore ==
    \/ Environment
    \/ Caller_RunOnce
    \/ Cycle

SpecStore == InitStore /\ [][NextStore]_vars

\* The pipeline with host crashes at any step and new server objects
\* constructed over the surviving state directory.
NextCrash ==
    \/ BetweenCycles
    \/ Caller_RunOnce
    \/ Cycle
    \/ NewServer
    \/ RemoveLatestMd5
    \/ Crash

SpecCrash == Init /\ [][NextCrash]_vars

\* The background loop: Start(), the Run thread, Stop() and the daemon.
NextRun ==
    \/ Environment
    \/ Cycle
    \/ Start
    \/ Run_Call
    \/ Run_Wait
    \/ StopSteps
    \/ Stop_Join

SpecRun == Init /\ [][NextRun]_vars

\* The start of the server: the daemon binding or failing to bind its port
\* while the caller starts and stops the Run thread.
NextStartup ==
    \/ Daemon_Bind
    \/ Daemon_BindFail
    \/ BetweenCycles
    \/ Start
    \/ Run_Call
    \/ Run_Wait
    \/ Cycle
    \/ StopSteps
    \/ Stop_Join

SpecStartup == InitStartup /\ [][NextStartup]_vars

\* The steps of the caller inside Stop() once it has been called.
StopProgress ==
    \/ Stop_Terminate
    \/ Stop_Wait
    \/ Stop_Set
    \/ Stop_Join

\* Start(), the Run thread and Stop() under fair scheduling: the caller
\* inside Stop(), the Run thread and the WaitAndKill thread keep running;
\* the daemon need not react to the termination signal and nobody has to
\* call Start(), Stop() or to write the tarball.
NextStop ==
    \/ BetweenCycles
    \/ Start
    \/ Run_Call
    \/ Run_Wait
    \/ Cycle
    \/ Stop_Begin
    \/ StopProgress
    \/ Daemon_Exit
    \/ Killer_Kill

SpecStop ==
    /\ Init
    /\ [][NextStop]_vars
    /\ WF_vars(StopProgress)
    /\ WF_vars(Run_Call)
    /\ WF_vars(Run_Wait)
    /\ WF_vars(Cycle)
    /\ WF_vars(Killer_Kill)

\* Two server objects over one state directory: this one driven through
\* RunOnce(), the other one publishing the same tarball at any moment.
NextTwo ==
    \/ BetweenCycles
    \/ Caller_RunOnce
    \/ Cycle
    \/ Other_Publish

SpecTwo == Init /\ [][NextTwo]_vars

\* The pipeline driven through RunOnce() with transient failures of the
\* extraction.
NextFault ==
    \/ BetweenCycles
    \/ Caller_RunOnce
    \/ Cycle
    \/ HandleTarball_ExtractFault

SpecFault == Init /\ [][NextFault]_vars

\* ------------------------------------------------- shopfloor_server main
\* main() after instance._InitBase() has returned with an update directory:
\* the FactoryUpdateServer is constructed and its daemon spawned; Init()
\* comes next.
InitMain ==
    /\ tarball = NoFile
    /\ store = NoDirs
    /\ newdirs = NoDirs
    /\ latest = "none"
    /\ latest_md5 = "absent"
    /\ crashes = 0
    /\ InitObject
    /\ snap = NoSnap
    /\ mp = "init"
    /\ hist = NoHist

\* The interpreter leaves main() by exit(1) or an uncaught exception: the
\* process and its object are gone, a spawned child process is not touched.
Main_Leave ==
    /\ mp' = "exited"
    /\ alive' = FALSE
    /\ UNCHANGED <<diskVars, last_stat, run_count, update_count, errors,
                   stop_event, thread, rsyncd, cycleVars, untouched,
                   lp, sp, proc, killer, hist>>

\* instance.Init() inside try; except: logging.exception(...); exit(1)
Main_Init ==
    /\ mp = "init"
    /\ \E ok \in BOOLEAN :
           IF ok
           THEN /\ mp' = "hwid"
                /\ UNCHANGED <<diskVars, objVars, cycleVars, untouched,
                               lp, sp, proc, killer, hist>>
           ELSE Main_Leave

\* instance._GetHWIDUpdaterPath() and the read of the updater, outside any
\* try: it raises when more than one updater is found.
Main_HWID ==
    /\ mp = "hwid"
    /\ \E ok \in BOOLEAN :
           IF ok
           THEN /\ mp' = "startbase"
                /\ UNCHANGED <<diskVars, objVars, cycleVars, untouched,
                               lp, sp, proc, killer, hist>>
           ELSE Main_Leave

\* try: instance._StartBase() -- update_server.Start(), or an exception
\* that leads to the finally clause.
Main_StartBase ==
    /\ mp = "startbase"
    /\ \/ /\ Start_Call
          /\ mp' = "serve"
          /\ UNCHANGED hist
       \/ /\ mp' = "finally"
          /\ UNCHANGED <<diskVars, objVars, cycleVars, untouched,
                         lp, sp, proc, killer, hist>>

\* _RunAsServer(...) ends with an exception (the port is taken, the server
\* is interrupted): control reaches the finally clause.
Main_Serve ==
    /\ mp = "serve"
    /\ mp' = "finally"
    /\ UNCHANGED <<diskVars, objVars, cycleVars, untouched,
                   lp, sp, proc, killer, hist>>

\* finally: instance._StopBase() -- update_server.Stop() is called.
Main_StopBase ==
    /\ mp = "finally"
    /\ Stop_Call
    /\ mp' = "stopbase"
    /\ UNCHANGED hist

\* Stop() has returned to the finally clause and main() ends.
Main_Exit ==
    /\ mp = "stopbase" /\ sp = "idle"
    /\ Main_Leave

\* shopfloor_server main from Init() on, with the Run thread, the steps of
\* Stop() and the daemon.
NextMain ==
    \/ Main_Init
    \/ Main_HWID
    \/ Main_StartBase
    \/ Main_Serve
    \/ Main_StopBase
    \/ Main_Exit
    \/ ProducerWrite
    \/ Run_Call
    \/ Run_Wait
    \/ Cycle
    \/ Stop_Terminate
    \/ Stop_Wait
    \/ Stop_Set
    \/ Stop_Join
    \/ Daemon_Exit
    \/ Killer_Kill

SpecMain == InitMain /\ [][NextMain]_vars

\* ----------------------------------------------- a producer that rewrites
\* The st_mtime values of a producer whose clock advances between writes.
LaterMtimes == {1, 2, 3}

\* The producer (re)writes autotest.tar.bz2 at any moment, a RunOnce in
\* progress included, and every write changes the (st_mtime, st_size) pair
\* of the file.  A write that does not give a later st_mtime is recorded.
ProducerRewrite ==
    \E c \in Archives, m \in LaterMtimes :
        LET new == [exists |-> TRUE, content |-> c, mtime |-> m] IN
        /\ tarball.exists => StatOf(new) # StatOf(tarball)
        /\ tarball' = new
        /\ untouched' = FALSE
        /\ hist' = [hist EXCEPT
                      !.rewound = @ \/ (tarball.exists /\ m <= tarball.mtime)]
        /\ UNCHANGED <<storeVars, objVars, cycleVars, lp, sp, proc, killer, mp>>

\* RunOnce() called in sequence while the producer rewrites the tarball
\* between and inside the cycles.
NextFresh ==
    \/ ProducerRewrite
    \/ Caller_RunOnce
    \/ Cycle

SpecFresh == Init /\ [][NextFresh]_vars

\* ============================================================== properties
\* <h>/ is deployed: it exists and autotest/MD5SUM holds h.
Deployed(d, h) == d.present /\ d.payload = "dir" /\ d.marker = h

\* A step that ends a cycle of the running server.
CycleEnds == pc # "idle" /\ pc' = "idle" /\ alive'

\* C1: in every reachable state of one watcher started over an empty store,
\* every directory autotest/<h>/ that exists holds autotest/MD5SUM equal to
\* h, and <h>/ only comes into existence by the rename of <h>.new, which
\* already holds the marker.
C1_AtomicPublication ==
    /\ [](\A h \in Hashes : store[h].present => Deployed(store[h], h))
    /\ [][\A h \in Hashes :
            (~store[h].present /\ store'[h].present) =>
                /\ pc = "rename" /\ md5sum = h
                /\ Deployed(newdirs[h], h)
                /\ store'[h] = newdirs[h]
                /\ ~newdirs'[h].present]_vars

\* A directory has just been renamed into place by a cycle of the Run thread.
C1_Witness ==
    /\ pc = "finally" /\ success = "true" /\ runner = "loop"
    /\ store[md5sum].present

\* C2: latest and latest.md5sum never name a hash whose directory is not
\* deployed, whatever step a host crash interrupts.
C2_PointerAfterPromotion ==
    /\ latest_md5 \in Hashes => Deployed(store[latest_md5], latest_md5)
    /\ latest \in Hashes => Deployed(store[latest], latest)

\* After a crash that left a staging directory behind, a new server has
\* advanced the pointer.
C2_Witness ==
    /\ crashes > 0 /\ alive
    /\ latest_md5 \in Hashes /\ latest = latest_md5
    /\ \E h \in Hashes : newdirs[h].present

\* The cycle that ends failed to publish: it raised, or it ends with no
\* deployed directory for the archive (corrupt archive, extraction error,
\* no autotest directory, existing directory with a missing or bad MD5SUM).
PublishFailed ==
    \/ outcome' = "raised"
    \/ md5sum \notin Hashes
    \/ ~Deployed(store'[md5sum], md5sum)

\* C3: when a publish attempt fails after an earlier publish of H1, latest
\* and latest.md5sum still name H1.
C3_PointerUnchangedOnFailure ==
    [][(CycleEnds /\ PublishFailed /\ snap.latest_md5 \in Hashes) =>
          /\ latest_md5' = snap.latest_md5
          /\ latest' = snap.latest]_vars

\* A cycle has found a directory with a bad MD5SUM after one archive was
\* published.
C3_Witness ==
    /\ pc = "idle" /\ log = "badmarker"
    /\ update_count = 1
    /\ latest_md5 \in Hashes /\ latest = latest_md5

\* C4: a RunOnce whose integrity verification fails returns without raising
\* at the verification, before the copy that makes the staging file; it
\* leaves error_count, the store and the staging directories as they were
\* and does not touch latest or latest.md5sum.
C4_CorruptArchiveNoEffect ==
    [][(CycleEnds /\ log' = "corrupt") =>
          /\ pc = "verify" /\ md5sum = "none"
          /\ outcome' = "returned"
          /\ errors' = snap.errors
          /\ update_count' = snap.update_count
          /\ store' = snap.store
          /\ newdirs' = snap.newdirs
          /\ latest' = snap.latest
          /\ latest_md5' = snap.latest_md5]_vars

\* A corrupt archive was seen after an earlier archive had been published.
C4_Witness ==
    /\ pc = "idle" /\ log = "corrupt" /\ outcome = "returned"
    /\ latest_md5 \in Hashes
\* The archive lists, extracts and holds an autotest directory.
ValidArchive(c) == TarLists(c) /\ TarExtract(c).ok /\ TarExtract(c).payload = "dir"

\* A step that is a call of RunOnce.
RunOnceCalled == alive /\ pc = "idle" /\ run_count' = run_count + 1

\* The cycle that ends began right after a RunOnce whose verification
\* failed and handled a valid archive: that archive is deployed and
\* latest.md5sum holds its hash.
PublishedAfterCorrupt ==
    (CycleEnds /\ snap.after_corrupt /\ tarball.exists
       /\ ValidArchive(tarball.content)) =>
        /\ Deployed(store'[CalculateMd5sum(tarball.content)],
                    CalculateMd5sum(tarball.content))
        /\ latest_md5' = CalculateMd5sum(tarball.content)

C6_IdempotentReprocessing ==
    [][(CycleEnds /\ md5sum \in Hashes
          /\ Deployed(snap.store[md5sum], md5sum)) =>
          /\ outcome' = "returned" /\ log' = "complete"
          /\ success = "unset"
          /\ update_count' = snap.update_count
          /\ errors' = snap.errors
          /\ store' = snap.store
          /\ newdirs' = snap.newdirs
          /\ latest' = md5sum
          /\ latest_md5' = md5sum]_vars

\* A new server over the store of a crashed one, with latest.md5sum missing
\* when its first RunOnce began, is rewriting it for a deployed hash.
C6_Witness ==
    /\ crashes > 0 /\ run_count = 1 /\ update_count = 0
    /\ pc = "md5write" /\ success = "unset"
    /\ snap.latest_md5 = "absent"
    /\ Deployed(store[md5sum], md5sum)

\* C7: a RunOnce called after an earlier RunOnce of the same server, with no
\* write to the tarball in between, returns at once: no staging copy, no
\* directory, no pointer rewrite, update_count and error_count unchanged.
C7_IdleNoOp ==
    [][(RunOnceCalled /\ run_count > 0 /\ untouched) =>
          /\ pc' = "idle" /\ outcome' = "returned"
          /\ UNCHANGED <<tarball, store, newdirs, latest, latest_md5>>
          /\ UNCHANGED <<update_count, errors, last_stat>>]_vars

\* The second RunOnce after a publish has returned without doing anything.
C7_Witness ==
    /\ pc = "idle" /\ run_count = 2 /\ update_count = 1
    /\ untouched /\ log = "none" /\ outcome = "returned"

\* C8: an exception in a RunOnce of the Run thread adds exactly one to
\* error_count and leaves the thread in its loop, on its way to the wait;
\* the loop only ends after the stop flag is set, and from its wait it
\* goes on to the next RunOnce while the flag is not set.
C8_LoopResilience ==
    /\ [][(CycleEnds /\ runner = "loop" /\ outcome' = "raised") =>
            /\ errors' = snap.errors + 1
            /\ lp' = "wait" /\ thread']_vars
    /\ [][(lp # "exited" /\ lp' = "exited") => stop_event]_vars
    /\ [][(lp = "wait" /\ lp' # "wait" /\ ~stop_event) => lp' = "call"]_vars

\* The Run thread is in a later cycle after a cycle that raised.
C8_Witness ==
    /\ errors > 0 /\ runner = "loop" /\ pc # "idle" /\ ~stop_event

\* C9: when Stop returns, the Run thread has ended and is joined, the rsync
\* daemon has exited and is reaped, no RunOnce is in progress and no
\* <hash>.new directory exists; and no step of Stop moves or undoes the
\* cycle in progress.
C9_StopSynchronous ==
    /\ [][(alive /\ sp # "idle" /\ sp' = "idle") =>
            /\ ~thread' /\ lp' = "none"
            /\ proc' = "reaped"
            /\ pc' = "idle" /\ runner' = "none"
            /\ \A h \in Hashes : ~newdirs'[h].present]_vars
    /\ [][(alive /\ sp' # sp) => UNCHANGED <<diskVars, cycleVars>>]_vars

\* Stop is in its join while a cycle of the Run thread is extracting.
C9_Witness ==
    /\ sp = "join" /\ pc = "marker" /\ runner = "loop"
    /\ newdirs[md5sum].present /\ proc = "reaped"

\* An earlier Stop has returned: flag set, thread joined, daemon reaped.
StopReturned == alive /\ stop_event /\ ~thread /\ proc = "reaped"

\* C10: every step of a Stop called after an earlier Stop has returned finds
\* the daemon handle cleared, goes neither to the termination of the
\* daemon nor to a join, and changes no field of the server, no file and
\* no process.
C10_StopIdempotent ==
    [][(StopReturned /\ sp' # sp) =>
          /\ ~rsyncd
          /\ sp' \in {"set", "idle"}
          /\ UNCHANGED <<diskVars, objVars, cycleVars, lp, proc, killer>>]_vars

\* A second Stop is under way after the Run thread has run and been joined.
C10_Witness ==
    /\ StopReturned /\ sp = "set" /\ ~rsyncd
    /\ run_count > 0 /\ lp = "none"
\* C11: a daemon that could not bind its port is surfaced when the server
\* is constructed or started, so the Run thread never polls, with no Stop
\* called, while the daemon has exited.
C11_StartupFailureSurfaced ==
    (thread /\ lp \in {"call", "incycle", "wait"} /\ sp = "idle"
       /\ ~stop_event) => proc # "exited"
\* C12: with an update directory GetTestMd5sum returns the hash the server
\* last wrote to latest.md5sum; without one it returns None.
C12_GetLatestHash ==
    /\ GetTestMd5sum(FALSE) = "None"
    /\ (alive /\ latest_md5 \in Hashes) => GetTestMd5sum(TRUE) = latest_md5
\* C13: Start() puts the Run thread at a call of RunOnce, the thread leaves
\* that point only by making the call, and the join of Stop() returns with
\* run_count >= 1.
C13_AtLeastOneCycle ==
    /\ [][(~thread /\ thread') => lp' = "call"]_vars
    /\ [][(lp = "call" /\ lp' # "call") => run_count' = run_count + 1]_vars
    /\ [][(alive /\ sp = "join" /\ sp' = "idle") => run_count' >= 1]_vars

\* Stop() has returned after a Start() whose thread made one RunOnce call.
C13_Witness ==
    /\ alive /\ sp = "idle" /\ stop_event /\ ~thread /\ lp = "none"
    /\ run_count = 1
\* C14: no step changes a directory <h>/ other than that of the archive
\* being handled; a cycle that promotes <H2>/ ends with H2 deployed, latest
\* and latest.md5sum naming H2 and every other <h>/ as it was when the
\* cycle began.
C14_OlderVersionsUntouched ==
    /\ [][\A h \in Hashes : h # md5sum => store'[h] = store[h]]_vars
    /\ [][(CycleEnds /\ success = "true") =>
            /\ ~snap.store[md5sum].present
            /\ Deployed(store'[md5sum], md5sum)
            /\ latest' = md5sum /\ latest_md5' = md5sum
            /\ \A h \in Hashes :
                   h # md5sum => store'[h] = snap.store[h]]_vars

\* A second archive has been published and the first is still deployed.
C14_Witness ==
    /\ pc = "idle" /\ update_count = 2
    /\ \E h \in Hashes :
           /\ h # latest_md5 /\ latest_md5 \in Hashes
           /\ latest = latest_md5
           /\ ArchiveOf(h) \in {"A", "B"}
           /\ Deployed(store[h], h)
           /\ Deployed(store[latest_md5], latest_md5)
\* C15: a RunOnce that finds the tarball absent, at its first stat, at the
\* verification or at the re-stat, does not raise and leaves error_count
\* as it was.
C15_AbsentIsTransient ==
    [][(alive /\ ~tarball.exists
          /\ (RunOnceCalled \/ pc \in {"verify", "restat"})) =>
          /\ outcome' # "raised"
          /\ errors' = errors]_vars
\* C16: while one server object lives, run_count changes only by one and
\* only where a RunOnce begins, and every cycle that begins adds one;
\* update_count grows by one in exactly the steps that bring a new <h>/
\* into existence and is unchanged in every other step; error_count never
\* decreases and grows by one at a time.
C16_Counters ==
    [][(alive /\ alive') =>
          /\ run_count' # run_count =>
                 (run_count' = run_count + 1 /\ pc = "idle")
          /\ (pc = "idle" /\ pc' # "idle") => run_count' = run_count + 1
          /\ update_count' =
                 IF \E h \in Hashes : ~store[h].present /\ store'[h].present
                 THEN update_count + 1
                 ELSE update_count
          /\ errors' \in {errors, errors + 1}]_vars

\* One cycle has promoted a directory and another one has raised.
C16_Witness ==
    /\ pc = "idle" /\ run_count = 2 /\ update_count = 1 /\ errors = 1
\* C17: the RunOnce that follows a RunOnce whose verification failed runs
\* the verification again, whether the tarball's (mtime, size) changed or
\* not.
C17_RetryAfterVerificationFailure ==
    [][(RunOnceCalled /\ log = "corrupt" /\ tarball.exists) =>
          pc' = "verify"]_vars

\* C18: a cycle whose extraction fails, or whose extracted tree has no
\* autotest directory, ends with error_count one higher than when it began
\* and with the staging directory removed.
C18_PublicationFailuresCounted ==
    [][(CycleEnds /\ log' \in {"extractfail", "noautotest"}) =>
          /\ errors' = snap.errors + 1
          /\ ~newdirs'[md5sum].present]_vars
\* The cycle that ends failed after its staging directory was made: it
\* leaves the try block of _HandleTarball by a return or an exception.
FailedAfterStaging == CycleEnds /\ pc = "finally" /\ pending # "none"

\* C19 as stated: after a publish attempt that failed once extraction had
\* begun, neither <h>.new nor a not promoted <h>/ exists and the entries of
\* autotest/ are exactly those of before the attempt, leftover <h>.new
\* included.
C19_Original ==
    [][FailedAfterStaging =>
          /\ ~newdirs'[md5sum].present
          /\ store' = snap.store
          /\ newdirs' = snap.newdirs]_vars

\* C19 amended: after such an attempt neither <h>.new nor a not promoted
\* <h>/ exists, the directories <g>/ and the pointers are those of before
\* the attempt, and so are the staging directories of the other hashes; a
\* leftover <h>.new of the archive's own hash has been removed.
C19_FailureCleanup ==
    [][FailedAfterStaging =>
          /\ ~newdirs'[md5sum].present
          /\ ~store'[md5sum].present
          /\ store' = snap.store
          /\ latest' = snap.latest /\ latest_md5' = snap.latest_md5
          /\ \A h \in Hashes :
                 h # md5sum => newdirs'[h] = snap.newdirs[h]]_vars

\* A failing attempt of a new server has reached its finally clause; a
\* crash had left the <h>.new of the same archive before the attempt.
C19_Witness ==
    /\ alive /\ crashes > 0
    /\ pc = "finally" /\ pending # "none"
    /\ snap.newdirs[md5sum].present
\* C20: a cycle that handles an archive whose <h>/ existed without a valid
\* MD5SUM when the cycle began ends at the test of that directory, with no
\* extraction, and leaves every directory, latest and latest.md5sum as
\* they were; no step makes latest or latest.md5sum name a hash whose
\* directory is not deployed.
C20_BadMarkerLeftAlone ==
    /\ [][(CycleEnds /\ md5sum \in Hashes
             /\ snap.store[md5sum].present
             /\ ~Deployed(snap.store[md5sum], md5sum)) =>
            /\ pc = "check" /\ success = "unset"
            /\ outcome' = "returned"
            /\ store' = snap.store
            /\ newdirs' = snap.newdirs
            /\ latest' = snap.latest
            /\ latest_md5' = snap.latest_md5]_vars
    /\ [][\A h \in Hashes :
            ((latest' = h /\ latest # h)
               \/ (latest_md5' = h /\ latest_md5 # h)) =>
                Deployed(store'[h], h)]_vars

\* A cycle has ended at a directory whose MD5SUM names another archive,
\* with no pointer written.
C20_Witness ==
    /\ pc = "idle" /\ log = "badmarker" /\ outcome = "returned"
    /\ latest = "none" /\ latest_md5 = "absent"
    /\ \E h \in Hashes :
           store[h].present /\ store[h].marker \notin {"none", h}
\* The Run thread stands at a call of RunOnce beyond the MaxRuns calls that
\* are followed.
BeyondMaxRuns == lp = "call" /\ run_count = MaxRuns

\* C21: under fair scheduling of the caller, the Run thread and the
\* WaitAndKill thread, a Stop() that has been called returns, also when the
\* daemon does not exit on the termination signal.
C21_StopTerminates == (sp # "idle") ~> (sp = "idle" \/ BeyondMaxRuns)

\* Stop() has joined a Run thread and reaped a daemon after the kill of
\* WaitAndKill.
C21_Witness ==
    /\ alive /\ sp = "idle" /\ stop_event /\ ~thread
    /\ run_count > 0 /\ killer = "done" /\ proc = "reaped"
\* C22: the kill of WaitAndKill is sent only to a daemon that has not exited
\* by the end of the grace period, never to the process id of a daemon
\* that has exited and been reaped by the wait of StopRsyncServer.
C22_GracefulThenForced ==
    [][(killer = "sleeping" /\ killer' # "sleeping") =>
          /\ proc \in {"binding", "running", "terming"}
          /\ killer' # "stale"]_vars
\* C23: the daemon is stopped only after the Run thread has exited, so the
\* daemon process has not exited while the Run thread is in a cycle.
C23_DaemonBracketsLoop ==
    (thread /\ runner = "loop" /\ pc # "idle") =>
        proc \in {"binding", "running", "terming"}
\* C24: from a store without latest and latest.md5sum, whenever no RunOnce
\* is in progress either neither exists or latest.md5sum holds the hash
\* that latest points to, whether the last RunOnce returned or raised.
C24_PointersInSync ==
    (alive /\ pc = "idle") =>
        \/ latest = "none" /\ latest_md5 = "absent"
        \/ latest \in Hashes /\ latest_md5 = latest

\* A RunOnce has raised after an earlier one had set both pointers.
C24_Witness ==
    /\ alive /\ pc = "idle" /\ outcome = "raised"
    /\ latest \in Hashes /\ latest_md5 = latest
\* C25: a read of latest.md5sum at any instant, also while the server is
\* advancing the pointer, yields None or a whole hash, never an empty or
\* partial string.
C25_NoTornRead == ReadLatestMd5sum \in (Hashes \cup {"None"})
\* C26: with two servers over one store handling the same archive, a
\* directory that one has promoted and made latest.md5sum name is never
\* removed by the other, so latest.md5sum never names a missing directory.
C26_PromotedNeverRemoved ==
    /\ [][\A h \in Hashes :
            (Deployed(store[h], h) /\ latest_md5 = h) =>
                store'[h] = store[h]]_vars
    /\ [](latest_md5 \in Hashes => store[latest_md5].present)
\* C27: a valid archive that stays unchanged is published by a later poll
\* also when an earlier cycle on it failed during publication: the RunOnce
\* that follows a failed extraction of an unchanged, valid, unpublished
\* archive handles the archive again.
C27_EventualPublication ==
    [][(RunOnceCalled /\ untouched /\ log = "extractfail"
          /\ tarball.exists /\ ValidArchive(tarball.content)
          /\ ~store[CalculateMd5sum(tarball.content)].present) =>
          pc' = "verify"]_vars
\* C28 as stated: once the stop flag is set the Run thread begins no
\* RunOnce.
C28_Original ==
    [][(lp = "call" /\ lp' # "call") => ~stop_event]_vars

\* C28 amended: a Run thread that tests the stop flag after it was set
\* exits without another RunOnce, and with the flag set a thread comes to
\* a call of RunOnce only by Start(); so a thread begins at most one
\* RunOnce after the flag is set, the one it stood before when the flag
\* was set or when it was started.
C28_NoCycleAfterObservedStop ==
    /\ [][(lp = "wait" /\ lp' # "wait" /\ stop_event) =>
            lp' = "exited"]_vars
    /\ [][(stop_event /\ lp # "call" /\ lp' = "call") =>
            (~thread /\ thread')]_vars

\* The Run thread has seen the flag after its wait and exited; Stop() is
\* about to join it.
C28_Witness ==
    /\ alive /\ stop_event /\ sp = "join" /\ lp = "exited"
    /\ run_count > 0
\* C30: whenever main() of shopfloor_server has exited after the daemon was
\* spawned, the daemon has been stopped (it has exited).
C30_DaemonNeverOrphaned ==
    mp = "exited" => proc \in {"exited", "reaped"}
\* C29 as stated: every producer write changing (mtime, size), whenever no
\* cycle is in progress and _last_stat equals the (mtime, size) of the
\* tarball, the content of the tarball is the content the last cycle that
\* read it rejected in verification or staged.
C29_Original ==
    (alive /\ pc = "idle" /\ tarball.exists /\ last_stat = StatOf(tarball)) =>
        tarball.content = hist.handled

\* C29 amended: every producer write giving the tarball a later mtime,
\* whenever no cycle is in progress and _last_stat equals the (mtime, size)
\* of the tarball, the content of the tarball is the content the last cycle
\* that read it rejected in verification or staged; and a RunOnce called
\* while the (mtime, size) of the tarball differs from _last_stat goes on to
\* verify the tarball.
C29_NoUpdateLost ==
    /\ []((alive /\ pc = "idle" /\ ~hist.rewound /\ tarball.exists
             /\ last_stat = StatOf(tarball)) =>
            tarball.content = hist.handled)
    /\ [][(RunOnceCalled /\ tarball.exists /\ StatOf(tarball) # last_stat) =>
            pc' = "verify"]_vars

\* After its second RunOnce the server has published a rewritten tarball
\* and the recorded pair is the pair of the file, whose mtimes only grew.
C29_Witness ==
    /\ alive /\ pc = "idle" /\ run_count = 2 /\ update_count > 0
    /\ ~hist.rewound /\ tarball.exists /\ tarball.mtime > 1
    /\ last_stat = StatOf(tarball) /\ hist.handled = tarball.content

====
